---- MODULE Spec2Model ----
(***************************************************************************)
(* Order-book data logger (orderbook_binance.py) and its store connector   *)
(* (database_connector.py).                                                *)
(*                                                                         *)
(* The clock `now` counts whole seconds of time.time(); prices and volumes *)
(* are integers standing for the exchange's decimal strings.  One control  *)
(* thread runs DataLogger.run; one thread per market runs get_data.        *)
(***************************************************************************)
EXTENDS Integers, Sequences, FiniteSets, TLC

\* ---------------------------------------------------------------- constants
SAMPLE_INTERVAL == 10
ORDERBOOK_DEPTH == 20
EXCHANGE_MARKETS == <<"BTCBUSD", "ETHBUSD">>

\* ------------------------------------------------------------------- bounds
\* the clock stops at MaxTime seconds
MaxTime == 31
\* the exchange returns at most MaxLevels levels per side
MaxLevels == 21
\* the level volumes of a response are shifted by a seed in 0..MaxSeed
MaxSeed == 1

\* cadences 1..MaxCadence are tried on the aligner
MaxCadence == 12
\* a caller of the connector builds at most MaxBatches batches and hands
\* each to the connector at most MaxDeliveries times
MaxBatches == 2
MaxDeliveries == 2
\* a caller of a shared table hands over at most MaxRows entries per call
MaxRows == 2
\* a reader finds at most MaxStored timestamps stored per table
MaxStored == 3

Markets == {EXCHANGE_MARKETS[i] : i \in 1..Len(EXCHANGE_MARKETS)}

\* the lists get_exchange_info may give: one other symbol and the
\* configured ones, any of which may be missing
ExchangeLists == {{"BTCUSDT"} \cup listed : listed \in SUBSET Markets}

VARIABLES
    pc,                          \* position of the control thread in main/run
    now,                         \* time.time()
    running,                     \* self.running
    target,                      \* self.target
    next_target,                 \* self.next_target
    sample_interval,             \* self.sample_interval
    save_order_imbalance,        \* SAVE_ORDER_IMBALANCE
    save_order_imbalance_jump,   \* SAVE_ORDER_IMBALANCE_JUMP
    save_order_imbalance_count,  \* self.save_order_imbalance_count
    orderbook_data,              \* self.orderbook_data
    order_imbalance_data,        \* self.order_imbalance_data
    thread,                      \* state of the get_data thread of each market
    raw,                         \* raw_orderbook_data of each get_data thread
    market_symbols,              \* market_symbols of validate_markets
    connected,                   \* db_connector.connected
    cur,                         \* db_connector.cur / the connection behind it
    ob_exists,                   \* markets whose orderbook_<market> table exists
    oi_exists,                   \* markets whose order_imbalance_<market> table exists
    ob_table,                    \* rows of orderbook_<market>
    oi_table,                    \* rows of order_imbalance_<market>
    fired,                       \* history: targets of the fired ticks
    stop_at,                     \* history: where the stop signal was handled
    log,                         \* history: the insert calls of the current tick
    shared_tables,               \* rows of binance_candles and of the funding-rate tables
    read_data                    \* data returned by the last get_orderbook / get_order_imbalance

vars == <<pc, now, running, target, next_target, sample_interval,
          save_order_imbalance,
          save_order_imbalance_jump, save_order_imbalance_count,
          orderbook_data, order_imbalance_data, thread, raw, market_symbols,
          connected, cur, ob_exists, oi_exists, ob_table, oi_table,
          fired, stop_at, log, shared_tables, read_data>>

loggerVars == <<running, target, next_target, sample_interval,
                save_order_imbalance,
                save_order_imbalance_jump, save_order_imbalance_count>>
batchVars == <<orderbook_data, order_imbalance_data>>
threadVars == <<thread, raw>>
storeVars == <<connected, cur, ob_exists, oi_exists, ob_table, oi_table>>

\* ------------------------------------------------------------ exchange data
\* A response of futures_order_book with k bid and m ask levels, best first.
Level(price, i, seed) == <<price, 1 + ((i + seed) % 3)>>

RawBook(k, m, seed) ==
    [bids |-> [i \in 1..k |-> Level(100 - i, i, seed)],
     asks |-> [i \in 1..m |-> Level(100 + i, i, seed)]]

EmptyBook == RawBook(0, 0, 0)

AllResponses ==
    {RawBook(k, m, s) : k \in 0..MaxLevels, m \in 0..MaxLevels, s \in 0..MaxSeed}

\* the book each market shows while the poll loop runs: a shallow one, and
\* one deeper than the stored depth with no asks
LoopResponses(m) ==
    IF m = EXCHANGE_MARKETS[1] THEN {RawBook(3, 2, 0)}
    ELSE {RawBook(MaxLevels, 0, MaxSeed)}

\* ------------------------------------------------------------- TimeAligner
\* variant: a time on the grid is its own next target
get_next_target_on_grid(time_now, interval) ==
    LET delta == (interval - (time_now % interval)) % interval
    IN  time_now + delta

get_next_target(time_now, interval) ==
    LET delta == interval - (time_now % interval)
    IN  time_now + delta

\* datetime.utcfromtimestamp(t).strftime("%Y-%m-%d %H:%M:%S%z+00"):
\* the calendar fields of t, here the minute count and the second in it
FormatDate(t) == <<t \div 60, t % 60>>

\* EXTRACT(epoch FROM date) of a stored date
Epoch(date) == date[1] * 60 + date[2]

\* ---------------------------------------------------------- MarketSampler
\* one side's two cells at level position i (0-based), zero-filled
LevelCells(levels, i) ==
    IF i < Len(levels) THEN <<levels[i + 1][1], levels[i + 1][2]>>
    ELSE <<0, 0>>

\* variant: the row ends with the last level the response has
RECURSIVE RowCellsUnpadded(_, _)
RowCellsUnpadded(r, i) ==
    IF i >= ORDERBOOK_DEPTH \/ (i >= Len(r.bids) /\ i >= Len(r.asks)) THEN <<>>
    ELSE LevelCells(r.bids, i) \o LevelCells(r.asks, i)
         \o RowCellsUnpadded(r, i + 1)

RECURSIVE RowCells(_, _)
RowCells(r, i) ==
    IF i >= ORDERBOOK_DEPTH THEN <<>>
    ELSE LevelCells(r.bids, i) \o LevelCells(r.asks, i) \o RowCells(r, i + 1)

\* the order-book row of get_data
OrderbookRow(market, tgt, r) == <<market, FormatDate(tgt)>> \o RowCells(r, 0)

\* variant: the sum stops at the stored depth
RECURSIVE SumValueStoredDepth(_, _, _)
SumValueStoredDepth(levels, i, acc) ==
    IF i > Len(levels) \/ i > ORDERBOOK_DEPTH THEN acc
    ELSE SumValueStoredDepth(levels, i + 1, acc + (levels[i][2] * levels[i][1]))

RECURSIVE SumValue(_, _, _)
SumValue(levels, i, acc) ==
    IF i > Len(levels) THEN acc
    ELSE SumValue(levels, i + 1, acc + (levels[i][2] * levels[i][1]))

\* the order_imbalance dict of get_data
OrderImbalance(market, tgt, r) ==
    [date |-> FormatDate(tgt),
     market |-> market,
     order_imbalance_bid |-> SumValue(r.bids, 1, 0),
     order_imbalance_ask |-> SumValue(r.asks, 1, 0)]

\* ------------------------------------------------------- DatabaseConnector
\* cur: "none" before the first connection, "open" on a usable connection,
\* "failed" on a connection whose transaction is aborted or which is lost
\* (every further statement on it raises), "closed" after disconnect.

\* connect(): opens a connection unless self.connected; ok: the store answers
Connect(ok) ==
    IF connected THEN [connected |-> TRUE, cur |-> cur]
    ELSE IF ok THEN [connected |-> TRUE, cur |-> "open"]
    ELSE [connected |-> FALSE, cur |-> cur]

\* the first of the indexes bad of 1..n, those whose statement raises;
\* n + 1 when there is none
FirstBad(n, bad) ==
    IF bad = {} THEN n + 1 ELSE CHOOSE i \in bad : \A j \in bad : i <= j

\* variant: a rejected statement is printed and the call still returns True
CreateTablesSwallowsError(markets_list, exists, ok, failAt) ==
    LET c == Connect(ok)
        n == Len(markets_list)
        k == FirstBad(n, {i \in 1..n : ~(c.cur = "open" /\ i # failAt)})
    IN  IF n > 0 /\ c.cur \in {"none", "closed"}
        THEN [result |-> "raised", exists |-> exists,
              connected |-> c.connected, cur |-> c.cur]
        ELSE IF k <= n
        THEN [result |-> "true",
              exists |-> exists \cup {markets_list[i] : i \in 1..(k - 1)},
              connected |-> c.connected, cur |-> "failed"]
        ELSE [result |-> "true",
              exists |-> exists \cup {markets_list[i] : i \in 1..n},
              connected |-> FALSE,
              cur |-> IF c.connected THEN "closed" ELSE c.cur]

\* create_orderbook_tables / create_order_imbalance_tables on markets_list:
\* ok: the store answers the connect, failAt: the statement the store rejects
CreateTables(markets_list, exists, ok, failAt) ==
    LET c == Connect(ok)
        n == Len(markets_list)
        k == FirstBad(n, {i \in 1..n : ~(c.cur = "open" /\ i # failAt)})
    IN  IF n > 0 /\ c.cur \in {"none", "closed"}
        THEN \* self.cur.execute on None or on a closed cursor: not a DatabaseError
             [result |-> "raised", exists |-> exists,
              connected |-> c.connected, cur |-> c.cur]
        ELSE IF k <= n
        THEN [result |-> "false",
              exists |-> exists \cup {markets_list[i] : i \in 1..(k - 1)},
              connected |-> c.connected, cur |-> "failed"]
        ELSE \* disconnect()
             [result |-> "true",
              exists |-> exists \cup {markets_list[i] : i \in 1..n},
              connected |-> FALSE,
              cur |-> IF c.connected THEN "closed" ELSE c.cur]

\* INSERT ... ON CONFLICT (date) DO UPDATE SET (...) = (EXCLUDED...)
Upsert(tbl, data) ==
    IF \E i \in 1..Len(tbl) : tbl[i][1] = data[1]
    THEN [i \in 1..Len(tbl) |-> IF tbl[i][1] = data[1] THEN data ELSE tbl[i]]
    ELSE Append(tbl, data)

\* variant: the statements after the failing one are still sent
RECURSIVE WriteRowsPastFailure(_, _, _, _)
WriteRowsPastFailure(tables, stmts, i, k) ==
    IF i > Len(stmts) THEN tables
    ELSE IF i = k \/ stmts[i][1] \notin DOMAIN tables
    THEN WriteRowsPastFailure(tables, stmts, i + 1, k)
    ELSE WriteRowsPastFailure(
             [tables EXCEPT ![stmts[i][1]] = Upsert(@, stmts[i][2])],
             stmts, i + 1, k)

\* the tables after the statements i..k-1; stmts[i] = <<market, values>>
RECURSIVE WriteRows(_, _, _, _)
WriteRows(tables, stmts, i, k) ==
    IF i >= k THEN tables
    ELSE WriteRows([tables EXCEPT ![stmts[i][1]] = Upsert(@, stmts[i][2])],
                   stmts, i + 1, k)

\* number of %s of the order-book statement: date and 80 level cells
ObArgs == 1 + (4 * ORDERBOOK_DEPTH)

\* insert_orderbook_data(orderbook_data): ok, failAt as in CreateTables.
\* A row whose values do not fill the placeholders raises in the driver,
\* before anything is sent; a statement the store rejects leaves the
\* connection failed.  batch: the caller's list after the call (data.pop(0)).
\* at: the entry whose statement ended the loop, n + 1 when none did, 0 when
\* the loop was not entered.
insert_orderbook_data(batch, ok, failAt) ==
    LET c == Connect(ok)
        n == Len(batch)
        Fits(i) == Len(batch[i]) = ObArgs + 1
        Sent(i) == c.cur = "open" /\ i # failAt /\ batch[i][1] \in ob_exists
        k == FirstBad(n, {i \in 1..n : ~(Fits(i) /\ Sent(i))})
        popped == [i \in 1..n |-> IF i <= k THEN Tail(batch[i]) ELSE batch[i]]
        stmts == [i \in 1..n |-> <<Head(batch[i]), Tail(batch[i])>>]
    IN  IF ~c.connected
        THEN [ret |-> FALSE, at |-> 0, batch |-> batch, table |-> ob_table,
              connected |-> FALSE, cur |-> c.cur]
        ELSE IF k <= n
        THEN [ret |-> FALSE, at |-> k, batch |-> popped,
              table |-> WriteRows(ob_table, stmts, 1, k),
              connected |-> TRUE,
              cur |-> IF Fits(k) THEN "failed" ELSE c.cur]
        ELSE [ret |-> TRUE, at |-> k, batch |-> popped,
              table |-> WriteRows(ob_table, stmts, 1, k),
              connected |-> FALSE, cur |-> "closed"]

\* msg_data of insert_order_imbalance_data
ImbalanceArgs(data) ==
    <<data.date, data.order_imbalance_bid, data.order_imbalance_ask>>

\* insert_order_imbalance_data(data_list)
insert_order_imbalance_data(batch, ok, failAt) ==
    LET c == Connect(ok)
        n == Len(batch)
        Sent(i) == c.cur = "open" /\ i # failAt /\ batch[i].market \in oi_exists
        k == FirstBad(n, {i \in 1..n : ~Sent(i)})
        stmts == [i \in 1..n |-> <<batch[i].market, ImbalanceArgs(batch[i])>>]
        written == WriteRows(oi_table, stmts, 1, k)
    IN  IF ~c.connected
        THEN [ret |-> FALSE, at |-> 0, batch |-> batch, table |-> oi_table,
              connected |-> FALSE, cur |-> c.cur]
        ELSE IF k <= n
        THEN [ret |-> FALSE, at |-> k, batch |-> batch, table |-> written,
              connected |-> TRUE, cur |-> "failed"]
        ELSE [ret |-> TRUE, at |-> k, batch |-> batch, table |-> written,
              connected |-> FALSE, cur |-> "closed"]

\* ------------------------------------------------------------------- Init
\* the shared tables, empty
SharedTables == {"binance_candles", "dydx_funding_rates", "binance_funding_rates"}
NoSharedRows == [t \in SharedTables |-> <<>>]

NotStopped == [phase |-> "none", tick |-> 0]

\* positions of run inside a tick: from the fired check to the target advance
InFlight == {"fire", "start", "join", "insert_ob", "insert_oi", "advance"}

\* where the control thread is: in main before run, in run before its loop,
\* at the loop's test, between the test and the time check, or in a tick
Phase(p) ==
    IF p \in InFlight THEN "tick"
    ELSE IF p \in {"main", "while", "check"} THEN p
    ELSE "startup"

Init ==
    /\ pc = "main"
    /\ now = 0
    /\ running = FALSE
    /\ target = 0
    /\ next_target = 0
    /\ sample_interval = SAMPLE_INTERVAL
    /\ save_order_imbalance = TRUE
    /\ save_order_imbalance_jump = TRUE
    /\ save_order_imbalance_count = TRUE
    /\ orderbook_data = <<>>
    /\ order_imbalance_data = <<>>
    /\ thread = [m \in Markets |-> "idle"]
    /\ raw = [m \in Markets |-> EmptyBook]
    /\ market_symbols = {}
    /\ connected = FALSE
    /\ cur = "none"
    /\ ob_exists = {}
    /\ oi_exists = {}
    /\ ob_table = [m \in Markets |-> <<>>]
    /\ oi_table = [m \in Markets |-> <<>>]
    /\ fired = <<>>
    /\ stop_at = NotStopped
    /\ log = <<>>
    /\ shared_tables = NoSharedRows
    /\ read_data = <<>>

\* ------------------------------------------------------- environment steps
\* the wall clock advances
TimePasses ==
    /\ pc \notin {"ended", "crashed"}
    /\ now < MaxTime
    /\ now' = now + 1
    /\ UNCHANGED <<pc, loggerVars, batchVars, threadVars, market_symbols,
                   storeVars, fired, stop_at, shared_tables, read_data, log>>

\* signal_handler -> DataLogger.stop, on the one termination signal
stop ==
    /\ pc \notin {"ended", "crashed"}
    /\ stop_at = NotStopped
    /\ running' = FALSE
    /\ stop_at' = [phase |-> Phase(pc), tick |-> Len(fired)]
    /\ UNCHANGED <<pc, now, target, next_target, sample_interval,
                   save_order_imbalance,
                   save_order_imbalance_jump, save_order_imbalance_count,
                   batchVars, threadVars, market_symbols, storeVars, fired, log,
                   shared_tables, read_data>>

\* the store takes the statements of a call: it answers the connect the
\* call makes and rejects no statement
Accepts(ok, failAt) == (connected \/ ok) /\ failAt = 0

\* ------------------------------------------------------- DataLogger.run
\* run, line 67
RunStart ==
    /\ pc = "main"
    /\ running' = TRUE
    /\ pc' = "validate"
    /\ UNCHANGED <<now, target, next_target, sample_interval,
                   save_order_imbalance,
                   save_order_imbalance_jump, save_order_imbalance_count,
                   batchVars, threadVars, market_symbols, storeVars,
                   fired, stop_at, shared_tables, read_data, log>>

\* variant: a market missing from the list is logged and run goes on
validate_markets_logs_only ==
    /\ pc = "validate"
    /\ \/ /\ running' = FALSE
          /\ pc' = "crashed"
          /\ UNCHANGED market_symbols
       \/ \E symbols \in ExchangeLists :
             /\ market_symbols' = symbols
             /\ pc' = "create_ob"
             /\ UNCHANGED running
    /\ UNCHANGED <<now, target, next_target, sample_interval,
                   save_order_imbalance, save_order_imbalance_jump,
                   save_order_imbalance_count, batchVars, threadVars,
                   storeVars, fired, stop_at, shared_tables, read_data, log>>

\* validate_markets: the exchange's list cannot be retrieved (the except
\* clause sets running, then the loop reads the unbound market_symbols and
\* the error leaves run), or it is retrieved and searched
validate_markets ==
    /\ pc = "validate"
    /\ \/ /\ running' = FALSE
          /\ pc' = "crashed"
          /\ UNCHANGED market_symbols
       \/ \E symbols \in ExchangeLists :
             /\ market_symbols' = symbols
             /\ running' = IF \E i \in 1..Len(EXCHANGE_MARKETS) :
                                  EXCHANGE_MARKETS[i] \notin symbols
                           THEN FALSE ELSE running
             /\ pc' = "create_ob"
    /\ UNCHANGED <<now, target, next_target, sample_interval,
                   save_order_imbalance,
                   save_order_imbalance_jump, save_order_imbalance_count,
                   batchVars, threadVars, storeVars, fired, stop_at, shared_tables, read_data, log>>

\* run, lines 72-76
create_orderbook_tables ==
    /\ pc = "create_ob"
    /\ \E ok \in BOOLEAN, failAt \in 0..Len(EXCHANGE_MARKETS) :
          LET r == CreateTables(EXCHANGE_MARKETS, ob_exists, ok, failAt)
          IN  /\ ob_exists' = r.exists
              /\ connected' = r.connected
              /\ cur' = r.cur
              /\ pc' = IF r.result = "raised" THEN "crashed" ELSE "create_oi"
              /\ running' = IF r.result = "false" /\ running THEN FALSE
                            ELSE running
    /\ UNCHANGED <<now, target, next_target, sample_interval,
                   save_order_imbalance,
                   save_order_imbalance_jump, save_order_imbalance_count,
                   batchVars, threadVars, market_symbols, oi_exists,
                   ob_table, oi_table, fired, stop_at, shared_tables, read_data, log>>

\* run, lines 78-83
create_order_imbalance_tables ==
    /\ pc = "create_oi"
    /\ IF save_order_imbalance
       THEN \E ok \in BOOLEAN, failAt \in 0..Len(EXCHANGE_MARKETS) :
               LET r == CreateTables(EXCHANGE_MARKETS, oi_exists, ok, failAt)
               IN  /\ oi_exists' = r.exists
                   /\ connected' = r.connected
                   /\ cur' = r.cur
                   /\ pc' = IF r.result = "raised" THEN "crashed" ELSE "sync"
                   /\ running' = IF r.result = "false" /\ running THEN FALSE
                                 ELSE running
       ELSE /\ pc' = "sync"
            /\ UNCHANGED <<oi_exists, connected, cur, running>>
    /\ UNCHANGED <<now, target, next_target, sample_interval,
                   save_order_imbalance,
                   save_order_imbalance_jump, save_order_imbalance_count,
                   batchVars, threadVars, market_symbols, ob_exists,
                   ob_table, oi_table, fired, stop_at, shared_tables, read_data, log>>

\* run, lines 85-88: the first target
Sync ==
    /\ pc = "sync"
    /\ IF running
       THEN /\ next_target' = get_next_target(now, sample_interval)
            /\ target' = next_target'
       ELSE UNCHANGED <<target, next_target>>
    /\ pc' = "while"
    /\ UNCHANGED <<now, running, sample_interval, save_order_imbalance,
                   save_order_imbalance_jump, save_order_imbalance_count,
                   batchVars, threadVars, market_symbols, storeVars,
                   fired, stop_at, shared_tables, read_data, log>>

\* run, line 91: while self.running
While ==
    /\ pc = "while"
    /\ pc' = IF running THEN "check" ELSE "ended"
    /\ UNCHANGED <<now, loggerVars, batchVars, threadVars, market_symbols,
                   storeVars, fired, stop_at, shared_tables, read_data, log>>

\* variant: the tick fires one second ahead of its target
CheckOneSecondEarly ==
    /\ pc = "check"
    /\ IF now + 1 >= target
       THEN /\ pc' = "fire"
            /\ fired' = Append(fired, target)
            /\ log' = <<>>
       ELSE /\ pc' = "while"
            /\ UNCHANGED <<fired, log>>
    /\ UNCHANGED <<now, loggerVars, batchVars, threadVars, market_symbols,
                   storeVars, stop_at, shared_tables, read_data>>

\* run, line 93: if time.time() >= self.target; when it is not, line 143
\* (time.sleep(0.1)) leads back to the loop's test
Check ==
    /\ pc = "check"
    /\ IF now >= target
       THEN /\ pc' = "fire"
            /\ fired' = Append(fired, target)
            /\ log' = <<>>
       ELSE /\ pc' = "while"
            /\ UNCHANGED <<fired, log>>
    /\ UNCHANGED <<now, loggerVars, batchVars, threadVars, market_symbols,
                   storeVars, stop_at, shared_tables, read_data>>

\* variant: the successor target is not recomputed when a tick fires
FireKeepsTarget ==
    /\ pc = "fire"
    /\ orderbook_data' = <<>>
    /\ order_imbalance_data' = <<>>
    /\ pc' = "start"
    /\ UNCHANGED <<now, loggerVars, threadVars, market_symbols, storeVars,
                   fired, stop_at, shared_tables, read_data, log>>

\* variant: the successor target is the grid point after the fired target
FireNextGridPoint ==
    /\ pc = "fire"
    /\ next_target' = target + sample_interval
    /\ orderbook_data' = <<>>
    /\ order_imbalance_data' = <<>>
    /\ pc' = "start"
    /\ UNCHANGED <<now, running, target, sample_interval,
                   save_order_imbalance, save_order_imbalance_jump,
                   save_order_imbalance_count, threadVars, market_symbols,
                   storeVars, fired, stop_at, shared_tables, read_data, log>>

\* run, lines 97-112: the successor target, fresh batches, the thread list
Fire ==
    /\ pc = "fire"
    /\ next_target' = get_next_target(now, sample_interval)
    /\ orderbook_data' = <<>>
    /\ order_imbalance_data' = <<>>
    /\ pc' = "start"
    /\ UNCHANGED <<now, running, target, sample_interval,
                   save_order_imbalance, save_order_imbalance_jump,
                   save_order_imbalance_count, threadVars, market_symbols,
                   storeVars, fired, stop_at, shared_tables, read_data, log>>

\* variant: only the first thread of thread_list is started
StartFirstThread ==
    /\ pc = "start"
    /\ thread[EXCHANGE_MARKETS[1]] = "idle"
    /\ thread' = [thread EXCEPT ![EXCHANGE_MARKETS[1]] = "started"]
    /\ pc' = "join"
    /\ UNCHANGED <<now, loggerVars, batchVars, raw, market_symbols,
                   storeVars, fired, stop_at, log, shared_tables, read_data>>

\* run, lines 114-115: thread.start() of the next thread of thread_list
StartThread ==
    /\ pc = "start"
    /\ \E i \in 1..Len(EXCHANGE_MARKETS) :
          /\ thread[EXCHANGE_MARKETS[i]] = "idle"
          /\ \A j \in 1..(i - 1) : thread[EXCHANGE_MARKETS[j]] # "idle"
          /\ thread' = [thread EXCEPT ![EXCHANGE_MARKETS[i]] = "started"]
          /\ pc' = IF i = Len(EXCHANGE_MARKETS) THEN "join" ELSE "start"
    /\ UNCHANGED <<now, loggerVars, batchVars, raw, market_symbols,
                   storeVars, fired, stop_at, shared_tables, read_data, log>>

Terminated(m) == thread[m] \in {"done", "failed"}

\* variant: only the first thread of thread_list is joined
JoinFirstThread ==
    /\ pc = "join"
    /\ Terminated(EXCHANGE_MARKETS[1])
    /\ pc' = "insert_ob"
    /\ UNCHANGED <<now, loggerVars, batchVars, threadVars, market_symbols,
                   storeVars, fired, stop_at, shared_tables, read_data, log>>

\* run, lines 117-118: every thread.join() has returned
Join ==
    /\ pc = "join"
    /\ \A m \in Markets : Terminated(m)
    /\ pc' = "insert_ob"
    /\ UNCHANGED <<now, loggerVars, batchVars, threadVars, market_symbols,
                   storeVars, fired, stop_at, shared_tables, read_data, log>>

\* a call insert_orderbook_data(self.orderbook_data, ...) and its return
CallInsertOrderbook ==
    \E ok \in BOOLEAN, failAt \in 0..Len(orderbook_data) :
       LET r == insert_orderbook_data(orderbook_data, ok, failAt)
       IN  /\ orderbook_data' = r.batch
           /\ ob_table' = r.table
           /\ connected' = r.connected
           /\ cur' = r.cur
           /\ log' = Append(log, [op |-> "orderbook", ret |-> r.ret, at |-> r.at,
                                  accepted |-> Accepts(ok, failAt)])

\* a call insert_order_imbalance_data(self.order_imbalance_data, ...)
CallInsertOrderImbalance ==
    \E ok \in BOOLEAN, failAt \in 0..Len(order_imbalance_data) :
       LET r == insert_order_imbalance_data(order_imbalance_data, ok, failAt)
       IN  /\ oi_table' = r.table
           /\ connected' = r.connected
           /\ cur' = r.cur
           /\ log' = Append(log, [op |-> "order_imbalance", ret |-> r.ret, at |-> r.at,
                                  accepted |-> Accepts(ok, failAt)])

\* variant: the order-book write is skipped once running is cleared
InsertOrderbookWhileRunning ==
    /\ pc = "insert_ob"
    /\ IF running THEN CallInsertOrderbook
       ELSE UNCHANGED <<orderbook_data, ob_table, connected, cur, log>>
    /\ pc' = "insert_oi"
    /\ UNCHANGED <<now, loggerVars, order_imbalance_data, threadVars,
                   market_symbols, ob_exists, oi_exists, oi_table,
                   fired, stop_at, shared_tables, read_data>>

\* run, lines 124-125
InsertOrderbook ==
    /\ pc = "insert_ob"
    /\ CallInsertOrderbook
    /\ pc' = "insert_oi"
    /\ UNCHANGED <<now, loggerVars, order_imbalance_data, threadVars,
                   market_symbols, ob_exists, oi_exists, oi_table,
                   fired, stop_at, shared_tables, read_data>>

\* variant: the call is made on the flag alone, whatever the setting
InsertOrderImbalanceOnFlag ==
    /\ pc = "insert_oi"
    /\ IF save_order_imbalance_count
       THEN CallInsertOrderImbalance
       ELSE UNCHANGED <<oi_table, connected, cur, log>>
    /\ pc' = "advance"
    /\ UNCHANGED <<now, loggerVars, batchVars, threadVars, market_symbols,
                   ob_exists, oi_exists, ob_table, fired, stop_at,
                   shared_tables, read_data>>

\* variant: the samples are written only after a successful row write
InsertOrderImbalanceAfterSuccess ==
    /\ pc = "insert_oi"
    /\ IF save_order_imbalance_count /\ save_order_imbalance
          /\ \A i \in 1..Len(log) : log[i].ret
       THEN CallInsertOrderImbalance
       ELSE UNCHANGED <<oi_table, connected, cur, log>>
    /\ pc' = "advance"
    /\ UNCHANGED <<now, loggerVars, batchVars, threadVars, market_symbols,
                   ob_exists, oi_exists, ob_table, fired, stop_at,
                   shared_tables, read_data>>

\* run, lines 127-129
InsertOrderImbalance ==
    /\ pc = "insert_oi"
    /\ IF save_order_imbalance_count /\ save_order_imbalance
       THEN CallInsertOrderImbalance
       ELSE UNCHANGED <<oi_table, connected, cur, log>>
    /\ pc' = "advance"
    /\ UNCHANGED <<now, loggerVars, batchVars, threadVars, market_symbols,
                   ob_exists, oi_exists, ob_table, fired, stop_at, shared_tables, read_data>>

\* variant: the flag flips only after a tick whose writes all returned True
AdvanceFlipsOnSuccess ==
    /\ pc = "advance"
    /\ orderbook_data' = <<>>
    /\ order_imbalance_data' = <<>>
    /\ save_order_imbalance_count' =
          IF save_order_imbalance_jump /\ \A i \in 1..Len(log) : log[i].ret
          THEN ~save_order_imbalance_count
          ELSE save_order_imbalance_count
    /\ target' = next_target
    /\ thread' = [m \in Markets |-> "idle"]
    /\ raw' = [m \in Markets |-> EmptyBook]
    /\ pc' = "while"
    /\ UNCHANGED <<now, running, next_target, sample_interval,
                   save_order_imbalance, save_order_imbalance_jump,
                   market_symbols, storeVars, fired, stop_at, shared_tables, read_data, log>>

\* variant: the target is computed when the persist phase is over
AdvanceFromNow ==
    /\ pc = "advance"
    /\ orderbook_data' = <<>>
    /\ order_imbalance_data' = <<>>
    /\ save_order_imbalance_count' =
          IF save_order_imbalance_jump THEN ~save_order_imbalance_count
          ELSE save_order_imbalance_count
    /\ target' = get_next_target(now, sample_interval)
    /\ thread' = [m \in Markets |-> "idle"]
    /\ raw' = [m \in Markets |-> EmptyBook]
    /\ pc' = "while"
    /\ UNCHANGED <<now, running, next_target, sample_interval,
                   save_order_imbalance,
                   save_order_imbalance_jump, market_symbols,
                   storeVars, fired, stop_at, log, shared_tables, read_data>>

\* run, lines 134-143: the batches are dropped, the flag flips, the target
\* advances, the loop sleeps; the finished threads are forgotten
Advance ==
    /\ pc = "advance"
    /\ orderbook_data' = <<>>
    /\ order_imbalance_data' = <<>>
    /\ save_order_imbalance_count' =
          IF save_order_imbalance_jump THEN ~save_order_imbalance_count
          ELSE save_order_imbalance_count
    /\ target' = next_target
    /\ thread' = [m \in Markets |-> "idle"]
    /\ raw' = [m \in Markets |-> EmptyBook]
    /\ pc' = "while"
    /\ UNCHANGED <<now, running, next_target, sample_interval,
                   save_order_imbalance,
                   save_order_imbalance_jump, market_symbols,
                   storeVars, fired, stop_at, shared_tables, read_data, log>>

\* ---------------------------------------------------- DataLogger.get_data
\* variant: a failed fetch drops the rows gathered so far
FetchAbortsBatch(m, responses) ==
    /\ thread[m] = "started"
    /\ \/ /\ thread' = [thread EXCEPT ![m] = "failed"]
          /\ orderbook_data' = <<>>
          /\ order_imbalance_data' = <<>>
          /\ UNCHANGED raw
       \/ \E r \in responses :
             /\ raw' = [raw EXCEPT ![m] = r]
             /\ thread' = [thread EXCEPT ![m] = "fetched"]
             /\ UNCHANGED batchVars
    /\ UNCHANGED <<pc, now, loggerVars, market_symbols, storeVars,
                   fired, stop_at, shared_tables, read_data, log>>

\* line 149: the fetch of market m fails (the except clause ends the
\* thread) or returns a response
Fetch(m, responses) ==
    /\ thread[m] = "started"
    /\ \/ /\ thread' = [thread EXCEPT ![m] = "failed"]
          /\ UNCHANGED raw
       \/ \E r \in responses :
             /\ raw' = [raw EXCEPT ![m] = r]
             /\ thread' = [thread EXCEPT ![m] = "fetched"]
    /\ UNCHANGED <<pc, now, loggerVars, batchVars, market_symbols, storeVars,
                   fired, stop_at, shared_tables, read_data, log>>

\* variant: the thread that computed a sample clears the flag
AppendImbalanceClearsFlag(m) ==
    /\ thread[m] = "fetched"
    /\ save_order_imbalance /\ save_order_imbalance_count
    /\ order_imbalance_data' =
          Append(order_imbalance_data, OrderImbalance(m, target, raw[m]))
    /\ save_order_imbalance_count' = FALSE
    /\ thread' = [thread EXCEPT ![m] = "sampled"]
    /\ UNCHANGED <<pc, now, running, target, next_target, sample_interval,
                   save_order_imbalance, save_order_imbalance_jump,
                   orderbook_data, raw, market_symbols,
                   storeVars, fired, stop_at, shared_tables, read_data, log>>

\* lines 151-167: the imbalance sample, on an imbalance-saving tick
AppendImbalance(m) ==
    /\ thread[m] = "fetched"
    /\ save_order_imbalance /\ save_order_imbalance_count
    /\ order_imbalance_data' =
          Append(order_imbalance_data, OrderImbalance(m, target, raw[m]))
    /\ thread' = [thread EXCEPT ![m] = "sampled"]
    /\ UNCHANGED <<pc, now, loggerVars, orderbook_data, raw, market_symbols,
                   storeVars, fired, stop_at, shared_tables, read_data, log>>

\* variant: the row is stamped with the successor target
AppendRowNextTarget(m) ==
    /\ \/ thread[m] = "sampled"
       \/ /\ thread[m] = "fetched"
          /\ ~(save_order_imbalance /\ save_order_imbalance_count)
    /\ orderbook_data' =
          Append(orderbook_data, OrderbookRow(m, next_target, raw[m]))
    /\ thread' = [thread EXCEPT ![m] = "done"]
    /\ UNCHANGED <<pc, now, loggerVars, order_imbalance_data, raw,
                   market_symbols, storeVars, fired, stop_at, log,
                   shared_tables, read_data>>

\* variant: every thread writes its row to the first slot of the batch
AppendRowFirstSlot(m) ==
    /\ \/ thread[m] = "sampled"
       \/ /\ thread[m] = "fetched"
          /\ ~(save_order_imbalance /\ save_order_imbalance_count)
    /\ orderbook_data' = <<OrderbookRow(m, target, raw[m])>>
    /\ thread' = [thread EXCEPT ![m] = "done"]
    /\ UNCHANGED <<pc, now, loggerVars, order_imbalance_data, raw,
                   market_symbols, storeVars, fired, stop_at, log,
                   shared_tables, read_data>>

\* lines 169-182: the fixed-width row
AppendRow(m) ==
    /\ \/ thread[m] = "sampled"
       \/ /\ thread[m] = "fetched"
          /\ ~(save_order_imbalance /\ save_order_imbalance_count)
    /\ orderbook_data' = Append(orderbook_data, OrderbookRow(m, target, raw[m]))
    /\ thread' = [thread EXCEPT ![m] = "done"]
    /\ UNCHANGED <<pc, now, loggerVars, order_imbalance_data, raw,
                   market_symbols, storeVars, fired, stop_at, shared_tables, read_data, log>>

get_data(m) ==
    \/ Fetch(m, LoopResponses(m))
    \/ AppendImbalance(m)
    \/ AppendRow(m)

\* ------------------------------------------------------------------- Spec
Next ==
    \/ TimePasses
    \/ stop
    \/ RunStart
    \/ validate_markets
    \/ create_orderbook_tables
    \/ create_order_imbalance_tables
    \/ Sync
    \/ While
    \/ Check
    \/ Fire
    \/ StartThread
    \/ Join
    \/ InsertOrderbook
    \/ InsertOrderImbalance
    \/ Advance
    \/ \E m \in Markets : get_data(m)

Spec == Init /\ [][Next]_vars

\* the exit status of the process once the control thread is at p: main
\* returns after run returned, or an error left run and main uncaught
ExitStatus(p) == IF p = "crashed" THEN 1 ELSE 0

\* the steps of the control thread: main calls run, and each statement of
\* run returns
RunSteps ==
    \/ RunStart
    \/ validate_markets
    \/ create_orderbook_tables
    \/ create_order_imbalance_tables
    \/ Sync
    \/ While
    \/ Check
    \/ Fire
    \/ StartThread
    \/ Join
    \/ InsertOrderbook
    \/ InsertOrderImbalance
    \/ Advance

\* the control thread and every started get_data thread keep being
\* scheduled and every call they make returns; the clock runs
SpecLive ==
    /\ Init /\ [][Next]_vars
    /\ WF_vars(RunSteps)
    /\ \A m \in Markets : WF_vars(get_data(m))
    /\ WF_vars(TimePasses)

\* ------------------------------------------- the run under any settings
\* lines 25-26: SAVE_ORDER_IMBALANCE and SAVE_ORDER_IMBALANCE_JUMP as set
\* in the module, each to True or to False, before the logger is built
InitConfig ==
    /\ pc = "main"
    /\ now = 0
    /\ running = FALSE
    /\ target = 0
    /\ next_target = 0
    /\ sample_interval = SAMPLE_INTERVAL
    /\ save_order_imbalance \in BOOLEAN
    /\ save_order_imbalance_jump \in BOOLEAN
    /\ save_order_imbalance_count = TRUE
    /\ orderbook_data = <<>>
    /\ order_imbalance_data = <<>>
    /\ thread = [m \in Markets |-> "idle"]
    /\ raw = [m \in Markets |-> EmptyBook]
    /\ market_symbols = {}
    /\ connected = FALSE
    /\ cur = "none"
    /\ ob_exists = {}
    /\ oi_exists = {}
    /\ ob_table = [m \in Markets |-> <<>>]
    /\ oi_table = [m \in Markets |-> <<>>]
    /\ fired = <<>>
    /\ stop_at = NotStopped
    /\ log = <<>>
    /\ shared_tables = NoSharedRows
    /\ read_data = <<>>

SpecConfig == InitConfig /\ [][Next]_vars

\* --------------------------------------------- the aligner on any cadence
\* run about to compute its first target, at any time, on any cadence
InitAligner ==
    /\ pc = "sync"
    /\ now \in 0..MaxTime
    /\ running = TRUE
    /\ target = 0
    /\ next_target = 0
    /\ sample_interval \in 1..MaxCadence
    /\ save_order_imbalance = TRUE
    /\ save_order_imbalance_jump = TRUE
    /\ save_order_imbalance_count = TRUE
    /\ orderbook_data = <<>>
    /\ order_imbalance_data = <<>>
    /\ thread = [m \in Markets |-> "idle"]
    /\ raw = [m \in Markets |-> EmptyBook]
    /\ market_symbols = {"BTCUSDT"} \cup Markets
    /\ connected = FALSE
    /\ cur = "closed"
    /\ ob_exists = Markets
    /\ oi_exists = Markets
    /\ ob_table = [m \in Markets |-> <<>>]
    /\ oi_table = [m \in Markets |-> <<>>]
    /\ fired = <<>>
    /\ stop_at = NotStopped
    /\ log = <<>>
    /\ shared_tables = NoSharedRows
    /\ read_data = <<>>

NextAligner ==
    \/ TimePasses
    \/ Sync

SpecAligner == InitAligner /\ [][NextAligner]_vars

\* ------------------------------------------- get_data on any response
\* the first n targets of the grid
Grid(n) == [i \in 1..n |-> i * SAMPLE_INTERVAL]

\* tick n (1 or 2) of a run whose earlier fetches all failed, with the
\* first get_data thread started
InitSampler ==
    \E n \in 1..2 :
       /\ pc = "start"
       /\ now = n * SAMPLE_INTERVAL
       /\ running = TRUE
       /\ target = n * SAMPLE_INTERVAL
       /\ next_target = (n + 1) * SAMPLE_INTERVAL
       /\ sample_interval = SAMPLE_INTERVAL
       /\ save_order_imbalance = TRUE
       /\ save_order_imbalance_jump = TRUE
       /\ save_order_imbalance_count = (n % 2 = 1)
       /\ orderbook_data = <<>>
       /\ order_imbalance_data = <<>>
       /\ thread = [m \in Markets |->
                      IF m = EXCHANGE_MARKETS[1] THEN "started" ELSE "idle"]
       /\ raw = [m \in Markets |-> EmptyBook]
       /\ market_symbols = {"BTCUSDT"} \cup Markets
       /\ connected = FALSE
       /\ cur = "closed"
       /\ ob_exists = Markets
       /\ oi_exists = Markets
       /\ ob_table = [m \in Markets |-> <<>>]
       /\ oi_table = [m \in Markets |-> <<>>]
       /\ fired = Grid(n)
       /\ stop_at = NotStopped
       /\ log = <<>>
       /\ shared_tables = NoSharedRows
       /\ read_data = <<>>
    /\ shared_tables = NoSharedRows
    /\ read_data = <<>>

NextSampler ==
    \E m \in Markets :
       \/ Fetch(m, AllResponses)
       \/ AppendImbalance(m)
       \/ AppendRow(m)

SpecSampler == InitSampler /\ [][NextSampler]_vars

\* ----------------------------------------- a caller of the connector
\* the tables exist and the connector is disconnected, as run's startup
\* leaves them; the caller holds no batch yet
InitCaller ==
    /\ pc = "caller"
    /\ now = 0
    /\ running = FALSE
    /\ target = 0
    /\ next_target = 0
    /\ sample_interval = SAMPLE_INTERVAL
    /\ save_order_imbalance = TRUE
    /\ save_order_imbalance_jump = TRUE
    /\ save_order_imbalance_count = TRUE
    /\ orderbook_data = <<>>
    /\ order_imbalance_data = <<>>
    /\ thread = [m \in Markets |-> "idle"]
    /\ raw = [m \in Markets |-> EmptyBook]
    /\ market_symbols = {"BTCUSDT"} \cup Markets
    /\ connected = FALSE
    /\ cur = "closed"
    /\ ob_exists = Markets
    /\ oi_exists = Markets
    /\ ob_table = [m \in Markets |-> <<>>]
    /\ oi_table = [m \in Markets |-> <<>>]
    /\ fired = <<>>
    /\ stop_at = NotStopped
    /\ log = <<>>
    /\ shared_tables = NoSharedRows
    /\ read_data = <<>>

\* the caller builds the batch of one tick as get_data does, a row and a
\* sample per market, from books that differ with the seed
CallerBatch ==
    /\ pc = "caller"
    /\ Len(fired) < MaxBatches
    /\ \E t \in {SAMPLE_INTERVAL, 2 * SAMPLE_INTERVAL}, seed \in 0..MaxSeed :
          /\ target' = t
          /\ fired' = Append(fired, t)
          /\ orderbook_data' =
                [i \in 1..Len(EXCHANGE_MARKETS) |->
                    OrderbookRow(EXCHANGE_MARKETS[i], t, RawBook(3, 2, seed))]
          /\ order_imbalance_data' =
                [i \in 1..Len(EXCHANGE_MARKETS) |->
                    OrderImbalance(EXCHANGE_MARKETS[i], t, RawBook(3, 2, seed))]
          /\ raw' = [m \in Markets |-> RawBook(3, 2, seed)]
    /\ log' = <<>>
    /\ UNCHANGED <<pc, now, running, next_target, sample_interval,
                   save_order_imbalance, save_order_imbalance_jump,
                   save_order_imbalance_count, thread, market_symbols,
                   storeVars, stop_at, shared_tables, read_data>>

\* the caller hands the list it holds to insert_orderbook_data
CallerInsertOrderbook ==
    /\ pc = "caller"
    /\ Len(log) < MaxDeliveries
    /\ CallInsertOrderbook
    /\ UNCHANGED <<pc, now, loggerVars, order_imbalance_data, threadVars,
                   market_symbols, ob_exists, oi_exists, oi_table,
                   fired, stop_at, shared_tables, read_data>>

\* the caller hands the list it holds to insert_order_imbalance_data
CallerInsertOrderImbalance ==
    /\ pc = "caller"
    /\ Len(log) < MaxDeliveries
    /\ CallInsertOrderImbalance
    /\ UNCHANGED <<pc, now, loggerVars, batchVars, threadVars, market_symbols,
                   ob_exists, oi_exists, ob_table, fired, stop_at, shared_tables, read_data>>

NextCaller ==
    \/ CallerBatch
    \/ CallerInsertOrderbook
    \/ CallerInsertOrderImbalance

SpecCaller == InitCaller /\ [][NextCaller]_vars

\* ------------------------------------ the shared tables and their callers
\* binance_candles rows are <<date, market, resolution, value>>, funding-rate
\* rows are <<date, market, value>>; value stands for the non-key columns.
Values == {1, 2}
\* chunk sizes a caller asks for: the whole list in one statement, or one
\* row per statement
ChunkSizes == {0, 1}
\* the store answers and takes every chunk, refuses the connection, or
\* rejects the first chunk: <<ok, failAt>>
StoreAnswers == {<<TRUE, 0>>, <<FALSE, 0>>, <<TRUE, 1>>}

\* the columns of ON CONFLICT (...) of each table's insert statement
ConflictColumns(t) == IF t = "binance_candles" THEN 3 ELSE 2
ConflictKey(t, row) == SubSeq(row, 1, ConflictColumns(t))

\* the keys a caller writes: candles of one start time, in two resolutions
\* for the first market; funding rates of two times for the first market
EntryKeys(t) ==
    IF t = "binance_candles"
    THEN {<<SAMPLE_INTERVAL, EXCHANGE_MARKETS[1], "1MIN">>,
          <<SAMPLE_INTERVAL, EXCHANGE_MARKETS[1], "1HOUR">>,
          <<SAMPLE_INTERVAL, EXCHANGE_MARKETS[2], "1MIN">>}
    ELSE {<<SAMPLE_INTERVAL, EXCHANGE_MARKETS[1]>>,
          <<2 * SAMPLE_INTERVAL, EXCHANGE_MARKETS[1]>>,
          <<SAMPLE_INTERVAL, EXCHANGE_MARKETS[2]>>}

\* data_list: up to MaxRows entries
DataLists(t) == UNION {[1..n -> EntryKeys(t)] : n \in 0..MaxRows}

\* splitList(inputList, chunkSize)
splitList(inputList, chunkSize) ==
    IF chunkSize = 0 THEN <<inputList>>
    ELSE [j \in 1..((Len(inputList) + chunkSize - 1) \div chunkSize) |->
             SubSeq(inputList, ((j - 1) * chunkSize) + 1,
                    IF j * chunkSize < Len(inputList) THEN j * chunkSize
                    ELSE Len(inputList))]

\* variant: the statement has no ON CONFLICT clause and the table no unique
\* index
InsertRow(t, tbl, row) == Append(tbl, row)

\* one row of INSERT ... ON CONFLICT (key) DO UPDATE SET (...) = (EXCLUDED...)
UpsertRow(t, tbl, row) ==
    IF \E i \in 1..Len(tbl) : ConflictKey(t, tbl[i]) = ConflictKey(t, row)
    THEN [i \in 1..Len(tbl) |->
             IF ConflictKey(t, tbl[i]) = ConflictKey(t, row) THEN row ELSE tbl[i]]
    ELSE Append(tbl, row)

RECURSIVE UpsertRows(_, _, _, _)
UpsertRows(t, tbl, rows, i) ==
    IF i > Len(rows) THEN tbl
    ELSE UpsertRows(t, UpsertRow(t, tbl, rows[i]), rows, i + 1)

\* the store takes the multi-row statement of a chunk: it has a row, and no
\* two of its rows share the conflict key (a row cannot be affected twice)
ChunkTaken(t, chunk) ==
    /\ Len(chunk) > 0
    /\ \A i, j \in 1..Len(chunk) :
          ConflictKey(t, chunk[i]) = ConflictKey(t, chunk[j]) => i = j

RECURSIVE WriteChunks(_, _, _, _, _)
WriteChunks(t, tbl, chunked, j, k) ==
    IF j >= k THEN tbl
    ELSE WriteChunks(t, UpsertRows(t, tbl, chunked[j], 1), chunked, j + 1, k)

\* insert_binance_candles_data / insert_dydx_funding_rate_data /
\* insert_binance_funding_rate_data (data_list, chunks) on table t; tuples:
\* the rows built from data_list.  The except clause of a failing chunk
\* indexes the chunk, a list, by a string: the call raises.
insert_shared_data(t, tuples, chunks, ok, failAt) ==
    LET c == Connect(ok)
        chunked == splitList(tuples, chunks)
        n == Len(chunked)
        k == FirstBad(n, {j \in 1..n : ~(/\ c.cur = "open" /\ j # failAt
                                          /\ ChunkTaken(t, chunked[j]))})
        written == WriteChunks(t, shared_tables[t], chunked, 1, k)
    IN  IF ~c.connected
        THEN [result |-> "false", at |-> 0, table |-> shared_tables[t],
              connected |-> FALSE, cur |-> c.cur]
        ELSE IF k <= n
        THEN [result |-> "raised", at |-> k, table |-> written,
              connected |-> TRUE, cur |-> "failed"]
        ELSE [result |-> "true", at |-> k, table |-> written,
              connected |-> FALSE, cur |-> "closed"]

\* a caller of one shared table, whose table exists and is empty
InitShared ==
    /\ pc \in SharedTables
    /\ now = 0
    /\ running = FALSE
    /\ target = 0
    /\ next_target = 0
    /\ sample_interval = SAMPLE_INTERVAL
    /\ save_order_imbalance = TRUE
    /\ save_order_imbalance_jump = TRUE
    /\ save_order_imbalance_count = TRUE
    /\ orderbook_data = <<>>
    /\ order_imbalance_data = <<>>
    /\ thread = [m \in Markets |-> "idle"]
    /\ raw = [m \in Markets |-> EmptyBook]
    /\ market_symbols = {"BTCUSDT"} \cup Markets
    /\ connected = FALSE
    /\ cur = "closed"
    /\ ob_exists = Markets
    /\ oi_exists = Markets
    /\ ob_table = [m \in Markets |-> <<>>]
    /\ oi_table = [m \in Markets |-> <<>>]
    /\ fired = <<>>
    /\ stop_at = NotStopped
    /\ log = <<>>
    /\ shared_tables = NoSharedRows
    /\ read_data = <<>>

\* the caller hands a data_list, whose entries carry the two values in
\* turn, to the insert of its table; log holds how the call ended, the
\* chunk that ended its loop, and the entries of a call that returned True
InsertShared ==
    /\ pc \in SharedTables
    /\ \E keys \in DataLists(pc), v \in Values, chunks \in ChunkSizes,
          answer \in StoreAnswers :
          LET tuples == [i \in 1..Len(keys) |->
                            Append(keys[i], 1 + ((v + i) % 2))]
          IN  \E r \in {insert_shared_data(pc, tuples, chunks,
                                            answer[1], answer[2])} :
                 /\ shared_tables' = [shared_tables EXCEPT ![pc] = r.table]
                 /\ connected' = r.connected
                 /\ cur' = r.cur
                 /\ log' = <<[op |-> pc, ret |-> (r.result = "true"),
                              result |-> r.result, at |-> r.at,
                              rows |-> IF r.result = "true" THEN tuples
                                       ELSE <<>>]>>
    /\ UNCHANGED <<pc, now, loggerVars, batchVars, threadVars, market_symbols,
                   ob_exists, oi_exists, ob_table, oi_table, fired, stop_at,
                   read_data>>

NextShared == InsertShared

SpecShared == InitShared /\ [][NextShared]_vars

\* ------------------------------------------------- the reading client
\* the timestamps a logger of cadence 2 * SAMPLE_INTERVAL has stored, in
\* the order it stored them
StoredTimes == [k \in 1..MaxStored |-> k * 2 * SAMPLE_INTERVAL]

\* start and end of a request, and its period: 0, the cadence, and the
\* defaults of get_orderbook and get_order_imbalance
ReadBounds == {k * SAMPLE_INTERVAL : k \in 0..((2 * MaxStored) + 1)}
Periods == {0, 20, 30, 60}

\* date <= other, on timestamps
DateLE(date, other) ==
    \/ date[1] < other[1]
    \/ date[1] = other[1] /\ date[2] <= other[2]

\* variant: the range ends before end
WhereBeforeEnd(date, start, end, period) ==
    /\ Epoch(date) % period = 0
    /\ DateLE(FormatDate(start), date)
    /\ DateLE(date, FormatDate(end)) /\ date # FormatDate(end)

\* WHERE EXTRACT(epoch FROM date)::integer % period = 0
\*   AND date >= start AND date <= end
Where(date, start, end, period) ==
    /\ Epoch(date) % period = 0
    /\ DateLE(FormatDate(start), date)
    /\ DateLE(date, FormatDate(end))

\* the lists that hold the objects of rows, one each, in any order (GROUP BY
\* date gives one object per date and no order)
Orders(rows) ==
    {[i \in 1..Len(rows) |-> rows[p[i]]] : p \in Permutations(1..Len(rows))}

\* get_orderbook / get_order_imbalance on table tbl: the lists the call may
\* return; a failed connect, a failed cursor, a missing table or a zero
\* period give the initial empty data
get_rows(tbl, exists, start, end, period, ok) ==
    LET c == Connect(ok)
        ran == c.connected /\ c.cur = "open" /\ exists /\ period # 0
        hit(row) == Where(row[1], start, end, period)
    IN  IF ~c.connected
        THEN [ran |-> FALSE, data |-> {<<>>}, connected |-> FALSE, cur |-> c.cur]
        ELSE IF ~ran
        THEN [ran |-> FALSE, data |-> {<<>>}, connected |-> TRUE,
              cur |-> "failed"]
        ELSE [ran |-> TRUE, data |-> Orders(SelectSeq(tbl, hit)),
              connected |-> FALSE, cur |-> "closed"]

\* the rows a logger stored for market m at the times of times in T
StoredOrderbook(m, T) ==
    LET book == RawBook(3, 2, IF m = EXCHANGE_MARKETS[1] THEN 0 ELSE 1)
        kept == SelectSeq(StoredTimes, LAMBDA t : t \in T)
    IN  [i \in 1..Len(kept) |-> Tail(OrderbookRow(m, kept[i], book))]

StoredImbalance(m, T) ==
    LET book == RawBook(3, 2, IF m = EXCHANGE_MARKETS[1] THEN 0 ELSE 1)
        kept == SelectSeq(StoredTimes, LAMBDA t : t \in T)
    IN  [i \in 1..Len(kept) |-> ImbalanceArgs(OrderImbalance(m, kept[i], book))]

\* a client of a store in which a logger has left rows: any of the stored
\* times for the first market, all of them for the second
InitReader ==
    /\ pc = "reader"
    /\ now = 0
    /\ running = FALSE
    /\ target = 0
    /\ next_target = 0
    /\ sample_interval = SAMPLE_INTERVAL
    /\ save_order_imbalance = TRUE
    /\ save_order_imbalance_jump = TRUE
    /\ save_order_imbalance_count = TRUE
    /\ orderbook_data = <<>>
    /\ order_imbalance_data = <<>>
    /\ thread = [m \in Markets |-> "idle"]
    /\ raw = [m \in Markets |-> EmptyBook]
    /\ market_symbols = {"BTCUSDT"} \cup Markets
    /\ connected = FALSE
    /\ cur = "closed"
    /\ ob_exists = Markets
    /\ oi_exists = Markets
    /\ \E T \in SUBSET {StoredTimes[k] : k \in 1..MaxStored} :
          LET times(m) == IF m = EXCHANGE_MARKETS[1] THEN T
                          ELSE {StoredTimes[k] : k \in 1..MaxStored}
          IN  /\ ob_table = [m \in Markets |-> StoredOrderbook(m, times(m))]
              /\ oi_table = [m \in Markets |-> StoredImbalance(m, times(m))]
    /\ fired = <<>>
    /\ stop_at = NotStopped
    /\ log = <<>>
    /\ shared_tables = NoSharedRows
    /\ read_data = <<>>

\* the one call op(market, start, end, period) of the client, on table tbl,
\* and its return; log holds the call
ReadCall(op, tbl, exists) ==
    /\ log = <<>>
    /\ \E start \in ReadBounds, end \in ReadBounds, period \in Periods,
       ok \in BOOLEAN :
          \E r \in {get_rows(tbl, exists, start, end, period, ok)} :
             /\ read_data' \in r.data
             /\ connected' = r.connected
             /\ cur' = r.cur
             /\ log' = <<[op |-> op, ret |-> r.ran, start |-> start,
                          end |-> end, period |-> period]>>

get_orderbook(market) ==
    /\ pc = "reader"
    /\ ReadCall(<<"get_orderbook", market>>, ob_table[market],
                market \in ob_exists)
    /\ UNCHANGED <<pc, now, loggerVars, batchVars, threadVars, market_symbols,
                   ob_exists, oi_exists, ob_table, oi_table, fired, stop_at,
                   shared_tables>>

get_order_imbalance(market) ==
    /\ pc = "reader"
    /\ ReadCall(<<"get_order_imbalance", market>>, oi_table[market],
                market \in oi_exists)
    /\ UNCHANGED <<pc, now, loggerVars, batchVars, threadVars, market_symbols,
                   ob_exists, oi_exists, ob_table, oi_table, fired, stop_at,
                   shared_tables>>

NextReader ==
    \E market \in Markets :
       \/ get_orderbook(market)
       \/ get_order_imbalance(market)

SpecReader == InitReader /\ [][NextReader]_vars

\* ================================================================ claims
\* the rows of market m in the order-book batch, the samples of m in the
\* imbalance batch
RowsOf(m) == {j \in 1..Len(orderbook_data) : orderbook_data[j][1] = m}
SamplesOf(m) ==
    {j \in 1..Len(order_imbalance_data) : order_imbalance_data[j].market = m}

\* row has 82 entries and its 20 bid and 20 ask pairs are the levels of r,
\* in r's order, then (0,0)
RowHolds(row, r) ==
    /\ Len(row) = 82
    /\ \A i \in 0..19 :
          /\ <<row[3 + (4 * i)], row[4 + (4 * i)]>> =
                (IF i < Len(r.bids) THEN r.bids[i + 1] ELSE <<0, 0>>)
          /\ <<row[5 + (4 * i)], row[6 + (4 * i)]>> =
                (IF i < Len(r.asks) THEN r.asks[i + 1] ELSE <<0, 0>>)

\* the sum of price * volume over every level
RECURSIVE Notional(_)
Notional(levels) ==
    IF Len(levels) = 0 THEN 0
    ELSE (Head(levels)[1] * Head(levels)[2]) + Notional(Tail(levels))

\* C1: whenever get_next_target computes the first target at time now on
\* cadence S, next_target is now + (S - (now mod S)), a multiple of S and
\* greater than now; when now is a multiple of S it is now + S.
C1_NextTargetAligned ==
    [][(pc = "sync" /\ pc' = "while" /\ running) =>
          /\ next_target' = now + (sample_interval - (now % sample_interval))
          /\ next_target' % sample_interval = 0
          /\ next_target' > now
          /\ (now % sample_interval = 0 =>
                 next_target' = now + sample_interval)]_vars

\* the target was just computed at a time on the grid
C1_Witness ==
    /\ pc = "while"
    /\ sample_interval > 1
    /\ now > 0
    /\ now % sample_interval = 0
    /\ next_target = now + sample_interval

\* C2: the targets of the fired ticks are positive multiples of the
\* cadence and strictly increasing.
C2_FiredTargetsIncrease ==
    /\ \A i \in 1..Len(fired) :
          fired[i] > 0 /\ fired[i] % sample_interval = 0
    /\ \A i \in 1..(Len(fired) - 1) : fired[i] < fired[i + 1]

\* three ticks have fired and the third has written
C2_Witness == Len(fired) = 3 /\ pc = "advance"

\* C3: every row get_data builds has 82 entries, its level pairs are the
\* response's levels in order and (0,0) from the response's depth on, and
\* every thread that finished its row has appended exactly one.
C3_FixedWidthRow ==
    /\ \A j \in 1..Len(orderbook_data) :
          RowHolds(orderbook_data[j], raw[orderbook_data[j][1]])
    /\ \A m \in Markets :
          thread[m] = "done" => Cardinality(RowsOf(m)) = 1

\* a row built from more bid levels than are stored and one ask level
C3_Witness ==
    \E m \in Markets :
       /\ thread[m] = "done"
       /\ Len(raw[m].bids) > 20
       /\ Len(raw[m].asks) = 1
       /\ Len(orderbook_data) = 1

\* C4: on an imbalance-saving tick the sample of a market holds the sum of
\* price * volume over all bid levels and over all ask levels of the
\* response its thread fetched, the response its row is built from.
C4_ImbalanceOverAllLevels ==
    /\ \A j \in 1..Len(order_imbalance_data) :
          LET d == order_imbalance_data[j]
              r == raw[d.market]
          IN  /\ d.order_imbalance_bid = Notional(r.bids)
              /\ d.order_imbalance_ask = Notional(r.asks)
              /\ \A i \in RowsOf(d.market) : RowHolds(orderbook_data[i], r)
    /\ \A m \in Markets :
          (save_order_imbalance /\ save_order_imbalance_count
             /\ thread[m] \in {"sampled", "done"})
          => Cardinality(SamplesOf(m)) = 1

\* a sample and a row from a response deeper than the stored depth
C4_Witness ==
    \E m \in Markets :
       /\ thread[m] = "done"
       /\ Len(raw[m].bids) > 20
       /\ Len(raw[m].asks) > 20
       /\ Len(order_imbalance_data) = 1

\* C5: when the threads are joined, the order-book batch holds one row for
\* each market whose fetch did not fail and none for the others, and so
\* does the imbalance batch on an imbalance-saving tick; no tick ends run
\* with an error, and after a tick the loop waits for a later target.
C5_PartialFailureIsolated ==
    /\ pc \in {"insert_ob", "insert_oi"} =>
          \A m \in Markets :
             /\ Terminated(m)
             /\ Cardinality(SamplesOf(m)) =
                   (IF thread[m] = "done" /\ save_order_imbalance
                       /\ save_order_imbalance_count THEN 1 ELSE 0)
    /\ pc = "insert_ob" =>
          \A m \in Markets :
             Cardinality(RowsOf(m)) = (IF thread[m] = "done" THEN 1 ELSE 0)
    /\ fired # <<>> => pc # "crashed"
    /\ (fired # <<>> /\ pc \in {"while", "check"}) =>
          target > fired[Len(fired)]

\* a tick whose first market failed and whose second was stored, with the
\* loop back at its test
C5_Witness ==
    /\ pc = "while"
    /\ running
    /\ Len(fired) = 1
    /\ Len(log) = 2 /\ log[1].ret /\ log[2].ret
    /\ ob_table[EXCHANGE_MARKETS[1]] = <<>>
    /\ oi_table[EXCHANGE_MARKETS[1]] = <<>>
    /\ Len(ob_table[EXCHANGE_MARKETS[2]]) = 1
    /\ Len(oi_table[EXCHANGE_MARKETS[2]]) = 1

\* the calls of op in the log of the current tick or batch
CallsOf(op) == {i \in 1..Len(log) : log[i].op = op}

\* C6: when the same batch of a tick has been handed twice to insert_orderbook_data,
\* or twice to insert_order_imbalance_data, the first call having returned
\* True and the store taking the statements of the second, the second call
\* returns True and each market's table holds exactly one row for the
\* batch's timestamp, with the batch's values.
C6_SameBatchTwice ==
    (/\ fired # <<>>
     /\ Len(log) = 2 /\ log[1].op = log[2].op
     /\ log[1].ret /\ log[2].accepted)
    =>
    /\ log[2].ret
    /\ \A m \in Markets :
          LET tbl == IF log[2].op = "orderbook" THEN ob_table[m]
                     ELSE oi_table[m]
              key == {i \in 1..Len(tbl) : tbl[i][1] = FormatDate(target)}
          IN  /\ Cardinality(key) = 1
              /\ \A i \in key :
                    IF log[2].op = "orderbook"
                    THEN RowHolds(<<m>> \o tbl[i], raw[m])
                    ELSE tbl[i] = <<FormatDate(target), Notional(raw[m].bids),
                                    Notional(raw[m].asks)>>

\* C7: the flag is "save" during the ticks numbered 1,3,5,... and "skip"
\* during the ticks numbered 2,4,6,..., and flips when a tick's persist
\* phase is over; an even tick computes no sample and makes no imbalance
\* call; an odd tick computes a sample per fetched market and makes one
\* imbalance call, whose samples are stored when it returns True; every
\* stored imbalance row carries the target of an odd tick.
C7_ImbalanceAlternates ==
    LET n == Len(fired)
    IN  /\ save_order_imbalance_count =
              (IF pc \in InFlight THEN n % 2 = 1 ELSE n % 2 = 0)
        /\ (pc \in InFlight /\ n % 2 = 0) =>
              /\ order_imbalance_data = <<>>
              /\ CallsOf("order_imbalance") = {}
        /\ (pc \in InFlight /\ n % 2 = 1) =>
              \A m \in Markets :
                 thread[m] = "done" => Cardinality(SamplesOf(m)) = 1
        /\ (pc = "advance" /\ n % 2 = 1) =>
              /\ Cardinality(CallsOf("order_imbalance")) = 1
              /\ \A i \in CallsOf("order_imbalance") :
                    log[i].ret =>
                       \A j \in 1..Len(order_imbalance_data) :
                          LET d == order_imbalance_data[j]
                          IN  \E k \in 1..Len(oi_table[d.market]) :
                                 oi_table[d.market][k] = ImbalanceArgs(d)
        /\ \A m \in Markets :
              \A k \in 1..Len(oi_table[m]) :
                 \E i \in 1..n :
                    i % 2 = 1 /\ oi_table[m][k][1] = FormatDate(fired[i])

\* the third tick has stored an imbalance row
C7_Witness ==
    /\ Len(fired) = 3
    /\ pc = "advance"
    /\ \E m \in Markets :
          \E k \in 1..Len(oi_table[m]) :
             oi_table[m][k][1] = FormatDate(fired[3])

\* C8: once validation has found a configured market missing from the
\* exchange's list, run is past its loop's reach: running is cleared, no
\* target is computed, no tick fires, no thread is started, no row is
\* stored.
C8_InvalidMarketNeverPolls ==
    (pc \notin {"main", "validate"} /\ ~(Markets \subseteq market_symbols))
    =>
    /\ pc \in {"create_ob", "create_oi", "sync", "while", "ended", "crashed"}
    /\ ~running
    /\ target = 0 /\ next_target = 0
    /\ fired = <<>>
    /\ \A m \in Markets :
          thread[m] = "idle" /\ ob_table[m] = <<>> /\ oi_table[m] = <<>>

\* run has ended on a list that lacks the second configured market, with no
\* stop signal
C8_Witness ==
    /\ pc = "ended"
    /\ market_symbols = {"BTCUSDT", EXCHANGE_MARKETS[1]}
    /\ stop_at = NotStopped

\* C9: once the creation of the order-book tables or of the imbalance
\* tables has failed (a table is missing after the call, or the call
\* raised), running is cleared or run has ended with the error: no target
\* is computed, no tick fires, no thread is started, no row is stored.
C9_FailedCreationNeverArms ==
    (\/ pc \notin {"main", "validate", "create_ob"} /\ ob_exists # Markets
     \/ /\ pc \notin {"main", "validate", "create_ob", "create_oi"}
        /\ save_order_imbalance
        /\ oi_exists # Markets)
    =>
    /\ pc \in {"create_oi", "sync", "while", "ended", "crashed"}
    /\ pc = "crashed" \/ ~running
    /\ target = 0 /\ next_target = 0
    /\ fired = <<>>
    /\ \A m \in Markets :
          thread[m] = "idle" /\ ob_table[m] = <<>> /\ oi_table[m] = <<>>

\* run has ended after valid markets and created order-book tables because
\* an imbalance table could not be created
C9_Witness ==
    /\ pc = "ended"
    /\ Markets \subseteq market_symbols
    /\ ob_exists = Markets
    /\ oi_exists # Markets
    /\ stop_at = NotStopped

\* C10: after a stop signal handled once run has set running, at most the
\* tick already past the loop's test fires; a stop handled during tick n
\* lets that tick finish (threads joined, one order-book call, one
\* imbalance call on an imbalance-saving tick, target advanced) and no tick
\* follows it.
C10_StopFinishesTick ==
    /\ stop_at.phase \notin {"none", "main"} =>
          Len(fired) <= stop_at.tick + (IF stop_at.phase = "check" THEN 1 ELSE 0)
    /\ stop_at.phase = "tick" =>
          /\ pc \in InFlight \cup {"while", "ended"}
          /\ Len(fired) = stop_at.tick
    /\ (stop_at.phase = "tick" /\ pc \in {"while", "ended"}) =>
          /\ target = next_target
          /\ orderbook_data = <<>> /\ order_imbalance_data = <<>>
          /\ \A m \in Markets : thread[m] = "idle"
          /\ Cardinality(CallsOf("orderbook")) = 1
          /\ Cardinality(CallsOf("order_imbalance")) =
                (IF save_order_imbalance /\ stop_at.tick % 2 = 1 THEN 1 ELSE 0)

\* run has ended after a stop handled during the first tick, whose two
\* writes were made and stored
C10_Witness ==
    /\ pc = "ended"
    /\ stop_at = [phase |-> "tick", tick |-> 1]
    /\ Len(log) = 2 /\ log[1].ret /\ log[2].ret
    /\ Len(ob_table[EXCHANGE_MARKETS[2]]) = 1

\* C11: a termination signal handled at any moment from main's installation
\* of the handler on is followed, sooner or later, by the end of run.
C11_StopLeadsToStopped ==
    (stop_at # NotStopped) ~> (pc \in {"ended", "crashed"})

\* a get_data thread that has been started and has not ended
Alive(m) == thread[m] \in {"started", "fetched", "sampled"}

\* C12: a get_data thread is started only while the tick has made no store
\* call; a store call is made only while no get_data thread is alive; and
\* when a tick fires, the order-book call of the tick before it, and its
\* imbalance call when it was a saving tick, have returned.
C12_TicksSequential ==
    [][/\ (\E m \in Markets : ~Alive(m) /\ Alive(m)') =>
             (pc = "start" /\ log = <<>>)
       /\ (log' # log /\ log' # <<>>) =>
             /\ pc \in {"insert_ob", "insert_oi"}
             /\ \A m \in Markets : ~Alive(m) /\ ~Alive(m)'
       /\ (pc = "check" /\ pc' = "fire" /\ fired # <<>>) =>
             /\ Cardinality(CallsOf("orderbook")) = 1
             /\ Cardinality(CallsOf("order_imbalance")) =
                   (IF Len(fired) % 2 = 1 THEN 1 ELSE 0)]_vars

\* a thread of the second tick runs after the first tick's two writes, one
\* returned True and one False
C12_Witness ==
    /\ Len(fired) = 2
    /\ Alive(EXCHANGE_MARKETS[1])
    /\ log = <<>>
    /\ Len(ob_table[EXCHANGE_MARKETS[2]]) = 1
    /\ oi_table[EXCHANGE_MARKETS[2]] = <<>>

\* C13: a tick with a failed write leaves run in its loop with running set
\* until a stop signal; and in every later tick the first store call, when
\* the store answers it and rejects none of its statements, returns True
\* and has stored the tick's rows.
C13_WriteFailureRecoverable ==
    /\ (fired # <<>> /\ \E i \in 1..Len(log) : ~log[i].ret) =>
          /\ pc \in InFlight \cup {"while", "check", "ended"}
          /\ running \/ stop_at # NotStopped
    /\ (Len(fired) >= 2 /\ pc = "insert_oi" /\ log[1].accepted) =>
          /\ log[1].ret
          /\ \A m \in Markets :
                thread[m] = "done" =>
                   \E k \in 1..Len(ob_table[m]) :
                      /\ ob_table[m][k][1] = FormatDate(fired[Len(fired)])
                      /\ RowHolds(<<m>> \o ob_table[m][k], raw[m])

\* the market and the statement values of entry i of a batch handed to op
EntryMarket(op, batch, i) ==
    IF op = "orderbook" THEN Head(batch[i]) ELSE batch[i].market
EntryValues(op, batch, i) ==
    IF op = "orderbook" THEN Tail(batch[i]) ELSE ImbalanceArgs(batch[i])

\* C14: a call of insert_orderbook_data or insert_order_imbalance_data
\* whose loop ended at entry k of its batch returns False: the entries
\* before k are stored as the rows of their timestamps, the tables of the
\* markets of entry k and of the entries after it are as they were before
\* the call; a call returns True only when no entry ended its loop, and a
\* call that could not connect returns False and writes nothing.
C14_FailFastPerCall ==
    [][(Len(log') = Len(log) + 1) =>
          LET call == log'[Len(log')]
              op == call.op
              k == call.at
              batch == IF op = "orderbook" THEN orderbook_data
                       ELSE order_imbalance_data
              old == IF op = "orderbook" THEN ob_table ELSE oi_table
              new == IF op = "orderbook" THEN ob_table' ELSE oi_table'
          IN  /\ call.ret = (k = Len(batch) + 1)
              /\ k = 0 => new = old
              /\ k \in 1..Len(batch) =>
                    /\ \A i \in 1..(k - 1) :
                          \E j \in 1..Len(new[EntryMarket(op, batch, i)]) :
                             new[EntryMarket(op, batch, i)][j]
                                = EntryValues(op, batch, i)
                    /\ \A m \in Markets :
                          (\A i \in 1..(k - 1) : EntryMarket(op, batch, i) # m)
                             => new[m] = old[m]]_vars

\* an order-book call returned False at its second row: the first market's
\* row is stored and the second market's is not
C14_Witness ==
    /\ pc = "caller"
    /\ Len(log) = 1 /\ log[1].op = "orderbook" /\ ~log[1].ret
    /\ log[1].at = 2
    /\ Len(ob_table[EXCHANGE_MARKETS[1]]) = 1
    /\ ob_table[EXCHANGE_MARKETS[2]] = <<>>

\* the rows of shared table t that agree with row on the first n columns
SameKey(t, row, n) ==
    {i \in 1..Len(shared_tables[t]) :
        SubSeq(shared_tables[t][i], 1, n) = SubSeq(row, 1, n)}

\* C15 as stated: every shared table holds at most one row per
\* (timestamp, market) pair.
C15_SharedKeyDateMarket ==
    \A t \in SharedTables :
       \A i \in 1..Len(shared_tables[t]) :
          SameKey(t, shared_tables[t][i], 2) = {i}

\* C15 amended: the candles table holds at most one row per (timestamp,
\* market, resolution) and each funding-rate table at most one row per
\* (timestamp, market); after an insert call that returned True the last
\* entry of each key in its data_list is the one row of that key.
C15_SharedKeyPerTable ==
    /\ \A t \in SharedTables :
          \A i \in 1..Len(shared_tables[t]) :
             SameKey(t, shared_tables[t][i],
                     IF t = "binance_candles" THEN 3 ELSE 2) = {i}
    /\ (log # <<>> /\ log[1].ret) =>
          LET rows == log[1].rows
              n == IF pc = "binance_candles" THEN 3 ELSE 2
          IN  \A e \in 1..Len(rows) :
                 (\A f \in (e + 1)..Len(rows) :
                     SubSeq(rows[f], 1, n) # SubSeq(rows[e], 1, n))
                 => \E i \in 1..Len(shared_tables[pc]) :
                       shared_tables[pc][i] = rows[e]

\* the candles of one market and start time in two resolutions are two
\* rows, and a call that wrote one of them twice, a row per statement, has
\* left the later value
C15_Witness ==
    /\ pc = "binance_candles"
    /\ log # <<>> /\ log[1].ret
    /\ Len(shared_tables[pc]) = 2
    /\ \A i \in 1..2 : shared_tables[pc][i][2] = EXCHANGE_MARKETS[1]
    /\ shared_tables[pc][1][4] = 2
    /\ shared_tables[pc][2][4] = 2
    /\ Len(log[1].rows) = 2 /\ log[1].rows[1][3] = log[1].rows[2][3]

\* validation found a configured market missing, or a table is missing
\* after its creation was due
SetupFailed ==
    \/ pc \notin {"main", "validate"} /\ ~(Markets \subseteq market_symbols)
    \/ pc \notin {"main", "validate", "create_ob"} /\ ob_exists # Markets
    \/ /\ pc \notin {"main", "validate", "create_ob", "create_oi"}
       /\ oi_exists # Markets

\* C16: a run ended by the stop signal after a sound setup exits with
\* status 0, and a run ended by an invalid market or a failed table
\* creation, with no stop signal, exits with another status.
C16_ExitStatusTellsCause ==
    /\ (pc = "ended" /\ stop_at # NotStopped /\ ~SetupFailed) =>
          ExitStatus(pc) = 0
    /\ (pc \in {"ended", "crashed"} /\ stop_at = NotStopped /\ SetupFailed) =>
          ExitStatus(pc) # 0

\* the table the last call of the reader read
ReadTable ==
    IF log[1].op[1] = "get_orderbook" THEN ob_table[log[1].op[2]]
    ELSE oi_table[log[1].op[2]]

\* C17: a call get_orderbook or get_order_imbalance (market, start, end,
\* period) that ran its query returned exactly one object for every row of
\* the market's table whose time t has start <= t <= end and t divisible by
\* period, and no other object.
C17_ReadFiltersRangeAndPeriod ==
    (pc = "reader" /\ log # <<>> /\ log[1].ret) =>
       /\ \A i \in 1..Len(ReadTable) :
             LET t == Epoch(ReadTable[i][1])
                 wanted == /\ log[1].start <= t /\ t <= log[1].end
                           /\ t % log[1].period = 0
             IN  Cardinality({j \in 1..Len(read_data) :
                                 read_data[j] = ReadTable[i]})
                    = (IF wanted THEN 1 ELSE 0)
       /\ \A j \in 1..Len(read_data) :
             \E i \in 1..Len(ReadTable) : read_data[j] = ReadTable[i]

\* a request for 20..60 by 20 on a table that holds 20, 40 and 60 returned
\* the three rows, the last one first
C17_Witness ==
    /\ pc = "reader"
    /\ log # <<>> /\ log[1].ret
    /\ log[1].start = 20 /\ log[1].end = 60 /\ log[1].period = 20
    /\ Len(ReadTable) = 3
    /\ Len(read_data) = 3
    /\ read_data[1][1] = FormatDate(60)

\* C18: the step that follows the fired time check computes next_target
\* from the clock of that step, with no get_data thread started yet; no
\* later step of the tick changes next_target, however long the fetches
\* and the writes take; and the tick's last step makes it the target.
C18_SuccessorFixedAtFire ==
    [][/\ (pc = "fire" /\ pc' # "fire") =>
             /\ pc' = "start"
             /\ next_target' = now + (sample_interval - (now % sample_interval))
             /\ \A m \in Markets : thread[m] = "idle" /\ thread'[m] = "idle"
       /\ (pc \in InFlight \ {"fire"}) => next_target' = next_target
       /\ (pc = "advance" /\ pc' # "advance") => target' = next_target]_vars

\* the first tick took longer than the cadence: its successor target, one
\* cadence after the fired one, is already past when the loop is back
C18_Witness ==
    /\ pc = "while"
    /\ Len(fired) = 1
    /\ target = fired[1] + sample_interval
    /\ now > target
    /\ Len(log) = 2

\* C19: get_data threads are alive only between the start loop and the
\* join; the start loop starts the threads in the order of the configured
\* markets, one per market, so that the join waits for as many threads as
\* there are markets; the persist phase is entered only with every one of
\* them ended, by a built row or by a caught failure; and no market has
\* more than one row or sample in the tick's batches.
C19_FanOutJoin ==
    /\ pc \notin {"start", "join"} => \A m \in Markets : ~Alive(m)
    /\ pc = "start" =>
          \E i \in 1..Len(EXCHANGE_MARKETS) :
             /\ \A j \in 1..(i - 1) : thread[EXCHANGE_MARKETS[j]] # "idle"
             /\ \A j \in i..Len(EXCHANGE_MARKETS) :
                   thread[EXCHANGE_MARKETS[j]] = "idle"
    /\ pc = "join" =>
          Cardinality({m \in Markets : thread[m] # "idle"})
             = Len(EXCHANGE_MARKETS)
    /\ pc \in {"insert_ob", "insert_oi", "advance"} =>
          \A m \in Markets : Terminated(m)
    /\ pc \in {"start", "join", "insert_ob"} =>
          \A m \in Markets :
             /\ Cardinality(RowsOf(m)) <= 1
             /\ Cardinality(SamplesOf(m)) <= 1

\* the persist phase of a tick whose first thread ended by a failure and
\* whose second built its row
C19_Witness ==
    /\ pc = "insert_ob"
    /\ thread[EXCHANGE_MARKETS[1]] = "failed"
    /\ thread[EXCHANGE_MARKETS[2]] = "done"
    /\ Len(orderbook_data) = 1

\* C20: from the start loop to the order-book call every row of the
\* order-book batch, and up to the imbalance call every sample of the
\* imbalance batch, carries the timestamp of the target of the tick in
\* progress, which is the last fired target and differs from next_target;
\* outside a tick both batches are empty.
C20_BatchStampedWithTarget ==
    /\ pc \in {"start", "join", "insert_ob", "insert_oi"} =>
          /\ target = fired[Len(fired)]
          /\ target # next_target
          /\ \A j \in 1..Len(order_imbalance_data) :
                /\ order_imbalance_data[j].date = FormatDate(target)
                /\ order_imbalance_data[j].date # FormatDate(next_target)
                /\ \A i \in 1..(Len(fired) - 1) :
                      order_imbalance_data[j].date # FormatDate(fired[i])
    /\ pc \in {"start", "join", "insert_ob"} =>
          \A j \in 1..Len(orderbook_data) :
             /\ orderbook_data[j][2] = FormatDate(target)
             /\ orderbook_data[j][2] # FormatDate(next_target)
             /\ \A i \in 1..(Len(fired) - 1) :
                   orderbook_data[j][2] # FormatDate(fired[i])
    /\ pc \in {"main", "validate", "create_ob", "create_oi", "sync", "while",
                "check", "fire", "ended", "crashed"} =>
          (orderbook_data = <<>> /\ order_imbalance_data = <<>>)

\* the third tick is about to hand over a row and a sample for each market
C20_Witness ==
    /\ pc = "insert_ob"
    /\ Len(fired) = 3
    /\ Len(orderbook_data) = 2
    /\ Len(order_imbalance_data) = 2

\* C21: a step taken while a get_data thread is alive leaves target,
\* next_target and the alternation flag as they are, and changes running
\* only when it is the handling of the stop signal; a step of a get_data
\* thread changes none of the four; and inside a tick the control thread
\* changes target and the flag only in the step that follows the writes.
C21_ScheduleUntouchedByFanOut ==
    [][/\ (\E m \in Markets : Alive(m)) =>
             /\ target' = target
             /\ next_target' = next_target
             /\ save_order_imbalance_count' = save_order_imbalance_count
             /\ running' # running => stop_at' # stop_at
       /\ (\E m \in Markets : Alive(m) /\ thread'[m] # thread[m]) =>
             running' = running
       /\ (pc \in InFlight /\ (target' # target \/ save_order_imbalance_count'
                                  # save_order_imbalance_count)) =>
             (pc = "advance" /\ Len(log) >= 1)]_vars

\* in the first tick one thread has built its row and the other is still
\* fetching, and the stop signal was handled during that fan-out
C21_Witness ==
    /\ pc = "join"
    /\ Len(fired) = 1
    /\ thread[EXCHANGE_MARKETS[1]] = "done"
    /\ thread[EXCHANGE_MARKETS[2]] = "started"
    /\ stop_at = [phase |-> "tick", tick |-> 1]
    /\ ~running

\* C22: whatever the order in which the get_data threads of a tick ran, the
\* batch the joins leave behind has as many rows as markets whose fetch
\* succeeded, and its rows are exactly the rows built from the responses of
\* those markets; while the threads run, the batch holds exactly the rows
\* of the threads that have finished.
C22_BatchIsSetOfFetchedRows ==
    pc \in {"start", "join", "insert_ob"} =>
       /\ Len(orderbook_data) = Cardinality({m \in Markets : thread[m] = "done"})
       /\ {orderbook_data[j] : j \in 1..Len(orderbook_data)} =
             {OrderbookRow(m, target, raw[m]) :
                 m \in {k \in Markets : thread[k] = "done"}}

\* after the joins of the second tick the row of the second market stands
\* before the row of the first
C22_Witness ==
    /\ pc = "insert_ob"
    /\ Len(fired) = 2
    /\ Len(orderbook_data) = 2
    /\ orderbook_data[1][1] = EXCHANGE_MARKETS[2]
    /\ orderbook_data[2][1] = EXCHANGE_MARKETS[1]

\* C23: a get_data thread starts only at a time at or after the current
\* target, which is the target the tick fired for; the target set at startup
\* is a multiple of the cadence after the time of startup, so the first
\* tick does not fire at the startup instant; and the loop goes from its
\* time check into a tick only when the target is reached.
C23_NoFetchBeforeTarget ==
    [][/\ (\E m \in Markets : ~Alive(m) /\ Alive(m)') =>
             /\ now >= target
             /\ fired # <<>> /\ fired[Len(fired)] = target
       /\ (pc = "sync" /\ pc' = "while" /\ running) =>
             /\ target' > now
             /\ target' % sample_interval = 0
       /\ (pc = "check" /\ pc' = "fire") => now >= target
       /\ (pc = "check" /\ pc' # pc /\ now < target) => pc' = "while"]_vars

\* the first thread of the first tick has started at the very second of the
\* target, the second grid point, the run having started after the first
C23_Witness ==
    /\ pc = "start"
    /\ Len(fired) = 1
    /\ thread[EXCHANGE_MARKETS[1]] = "started"
    /\ target = 2 * SAMPLE_INTERVAL
    /\ now = target

\* C24: however late the loop comes back to its time check, a check that
\* finds the target reached fires one tick, for that target; the successor
\* the tick computes is the first multiple of the cadence after the clock
\* read that follows the check, whatever the distance between the clock and
\* the fired target; after the tick the target is that successor, so the
\* grid points between a fired target and the next one are in no later
\* tick.
C24_OverrunOwesOneTick ==
    [][/\ (pc = "check" /\ pc' # pc /\ now >= target) =>
             /\ pc' = "fire"
             /\ fired' = Append(fired, target)
       /\ (pc = "fire" /\ pc' # pc) =>
             /\ next_target' % sample_interval = 0
             /\ next_target' > now
             /\ next_target' - sample_interval <= now
       /\ (pc = "advance" /\ pc' # pc) =>
             /\ target' = next_target
             /\ (now >= next_target + sample_interval) => target' < now
       /\ \A i \in 1..Len(fired') : \A j \in 1..Len(fired') :
             i < j => fired'[i] < fired'[j]]_vars

\* the first tick lasted past two grid points: the second tick fires for
\* the first of them and its successor is the grid point after the second
C24_Witness ==
    /\ pc = "start"
    /\ fired = <<SAMPLE_INTERVAL, 2 * SAMPLE_INTERVAL>>
    /\ now >= 3 * SAMPLE_INTERVAL
    /\ next_target = 4 * SAMPLE_INTERVAL

\* C25: with imbalance saving on and the alternation off the flag stays
\* set, every thread that got a response adds its sample before its row,
\* and every tick hands the samples to insert_order_imbalance_data; with
\* imbalance saving off no sample is computed, insert_order_imbalance_data
\* is never called, and no imbalance table is created or written.
C25_SettingsDecideImbalance ==
    /\ (save_order_imbalance /\ ~save_order_imbalance_jump) =>
          /\ save_order_imbalance_count
          /\ pc \in {"insert_ob", "insert_oi"} =>
                \A m \in Markets :
                   Cardinality(SamplesOf(m)) =
                      (IF thread[m] = "done" THEN 1 ELSE 0)
          /\ pc = "advance" =>
                Cardinality(CallsOf("order_imbalance")) = 1
    /\ ~save_order_imbalance =>
          /\ order_imbalance_data = <<>>
          /\ CallsOf("order_imbalance") = {}
          /\ oi_exists = {}
          /\ \A m \in Markets : oi_table[m] = <<>>

\* with the alternation off, the second tick in a row has computed a sample
\* for each market and handed them to insert_order_imbalance_data
C25_Witness ==
    /\ save_order_imbalance /\ ~save_order_imbalance_jump
    /\ pc = "advance"
    /\ Len(fired) = 2
    /\ Len(order_imbalance_data) = 2
    /\ CallsOf("order_imbalance") # {}

\* C26: a call of a chunked insert in which the store rejected the
\* statement of a chunk has returned False, without an exception leaving
\* the call, and has added to the table at most the rows of the chunks
\* before the rejected one.
C26_ChunkErrorReturnsFalse ==
    [][(log' # <<>> /\ log'[1].at >= 1 /\ ~log'[1].ret) =>
          /\ log'[1].result = "false"
          /\ Len(shared_tables'[pc]) <= Len(shared_tables[pc]) + log'[1].at - 1
      ]_vars

\* C27: once insert_orderbook_data or insert_order_imbalance_data has
\* returned in a tick, with True or with False, the connector is
\* disconnected, and the writes of every tick begin on a disconnected
\* connector.
C27_InsertLeavesNoConnection ==
    /\ (fired # <<>> /\ log # <<>>) => (~connected /\ cur # "failed")
    /\ pc = "insert_ob" => (~connected /\ cur # "failed")

\* C28: whatever calls of insert_orderbook_data the caller's batch went
\* through, each of its rows is still the row that was built: the market,
\* the formatted target, and the four values of each of the 20 levels.
C28_BatchUnchangedByInsert ==
    fired # <<>> =>
       /\ Len(orderbook_data) = Len(EXCHANGE_MARKETS)
       /\ \A i \in 1..Len(orderbook_data) :
             /\ Len(orderbook_data[i]) = 2 + 4 * ORDERBOOK_DEPTH
             /\ orderbook_data[i][1] = EXCHANGE_MARKETS[i]
             /\ orderbook_data[i][2] = FormatDate(target)
             /\ orderbook_data[i] =
                   OrderbookRow(EXCHANGE_MARKETS[i], target,
                                raw[EXCHANGE_MARKETS[i]])

\* C29 as stated: a get_data thread of the tick for target t starts at a
\* time in [t, t + S), S being the cadence.
C29_FetchWithinCadenceOfStamp ==
    [][\A m \in Markets :
          (thread[m] = "idle" /\ thread'[m] = "started") =>
             /\ target <= now
             /\ now < target + sample_interval]_vars

\* C29 amended: a get_data thread of the tick for target t starts at or
\* after t and at or after the grid point that precedes the successor
\* computed when the tick fired, which is t or any later grid point; the
\* row and the sample it adds are stamped t.
C29_FetchNotBeforeStamp ==
    [][\A m \in Markets :
          /\ (thread[m] = "idle" /\ thread'[m] = "started") =>
                /\ target <= now
                /\ next_target - sample_interval <= now
                /\ next_target >= target + sample_interval
          /\ (thread[m] # "done" /\ thread'[m] = "done") =>
                /\ target <= now
                /\ orderbook_data'[Len(orderbook_data')][1] = m
                /\ orderbook_data'[Len(orderbook_data')][2] = FormatDate(target)
          /\ (thread[m] # "sampled" /\ thread'[m] = "sampled") =>
                order_imbalance_data'[Len(order_imbalance_data')].date
                   = FormatDate(target)]_vars

\* the second tick, fired a grid point late: a thread is still fetching
\* at the third grid point or later for the rows stamped with the second,
\* and the other thread has added its row
C29_Witness ==
    /\ pc = "join"
    /\ fired = <<SAMPLE_INTERVAL, 2 * SAMPLE_INTERVAL>>
    /\ next_target = 4 * SAMPLE_INTERVAL
    /\ thread[EXCHANGE_MARKETS[1]] = "started"
    /\ thread[EXCHANGE_MARKETS[2]] = "done"
    /\ orderbook_data[1][2] = FormatDate(2 * SAMPLE_INTERVAL)

\* C30: on a tick that saves imbalance, the step after the call of
\* insert_orderbook_data calls insert_order_imbalance_data with the tick's
\* samples, whatever the first call returned; and the step after the
\* writes flips the alternation flag and sets target to next_target,
\* whatever the calls returned.
C30_FailedWriteSkipsNothing ==
    [][/\ (pc = "insert_ob" /\ pc' # pc) =>
             /\ pc' = "insert_oi"
             /\ order_imbalance_data' = order_imbalance_data
       /\ (pc = "insert_oi" /\ pc' # pc) =>
             /\ pc' = "advance"
             /\ (save_order_imbalance /\ save_order_imbalance_count) =>
                   /\ Len(log') = Len(log) + 1
                   /\ log'[Len(log')].op = "order_imbalance"
                   /\ order_imbalance_data' = order_imbalance_data
       /\ (pc = "advance" /\ pc' # pc) =>
             /\ pc' = "while"
             /\ target' = next_target
             /\ save_order_imbalance_count' =
                   (IF save_order_imbalance_jump
                    THEN ~save_order_imbalance_count
                    ELSE save_order_imbalance_count)]_vars

\* the first tick is over: both calls returned False, a statement of the
\* first having failed, the flag is flipped and the target is the
\* second grid point
C30_Witness ==
    /\ pc = "while"
    /\ fired = <<SAMPLE_INTERVAL>>
    /\ Len(log) = 2
    /\ log[1].op = "orderbook" /\ ~log[1].ret /\ log[1].at >= 1
    /\ log[2].op = "order_imbalance" /\ ~log[2].ret
    /\ ~save_order_imbalance_count
    /\ target = 2 * SAMPLE_INTERVAL

\* C31: once validate_markets has found a configured market missing from
\* the exchange's list, run makes no call to the store: no connection is
\* opened and no order-book or imbalance table is created.
C31_InvalidMarketNoStoreCall ==
    (market_symbols # {} /\ ~(Markets \subseteq market_symbols)) =>
       /\ ob_exists = {}
       /\ oi_exists = {}
       /\ ~connected
       /\ cur = "none"

\* C32: when the exchange's list could not be retrieved, validate_markets
\* has cleared running and returned, no error has left run, and run goes to
\* its end without a tick.
C32_UnreachableExchangeIsValidationFailure ==
    (pc \notin {"main", "validate"} /\ market_symbols = {}) =>
       /\ ~running
       /\ pc # "crashed"
       /\ ExitStatus(pc) = 0
       /\ fired = <<>>

====
